---------------------------- MODULE Spec2Model ----------------------------
(***************************************************************************)
(* A model of the trace-recording core of the parea SDK:                   *)
(*   - PareaLogger (parea/parea_logger.py): the dispatcher that hands a    *)
(*     TraceLog to the cache and to the remote sink;                       *)
(*   - Cache / CacheRequest (parea/cache/cache.py, schemas/models.py);     *)
(*   - FeedbackRequest (schemas/models.py) and its score validators;       *)
(*   - ExperimentStatsSchema (schemas/models.py): the score averages;      *)
(*   - trace tree reconstruction over TraceLog / TraceLogTree;             *)
(*   - progressive_reranking (evals/rag/context_ranking_listwise.py).      *)
(* Python values are modelled as strings, dicts and attrs instances as     *)
(* functions from field names to strings, so that any two values compare.  *)
(***************************************************************************)
EXTENDS Integers, Sequences, FiniteSets, TLC

VARIABLES
    client,        \* PareaLogger._client: None or the configured HTTPClient
    redis_cache,   \* PareaLogger._redis_cache: None or the configured RedisCache
    project_uuid,  \* PareaLogger._project_uuid
    environ,       \* os.environ[PAREA_OS_ENV_EXPERIMENT_UUID], or Unset
    cacheStore,    \* the logs the cache backend holds
    call,          \* the last logger method call: its input, its I/O, its outcome
    store,         \* Cache: the key/value pairs a backend holds
    hist,          \* Cache: the set/invalidate operations applied so far
    lastOp,        \* Cache: the last operation: its key, its result, the store before it
    instances,     \* the FeedbackRequest instances that exist
    feedback,      \* the last FeedbackRequest construction / setattr / record_feedback
    stats,         \* the ExperimentStatsSchema at hand
    statsOut,      \* the last aggregate computed on it: its result or its exception
    records,       \* the collection of TraceLog records handed to reconstruction
    treeOut,       \* the last reconstruction: its TraceLogTree or its exception
    n_contexts_to_rank,  \* context_ranking_listwise_factory: the closure's window size
    original,      \* context_ranking: the contexts as read from the log
    contexts,      \* progressive_reranking: the contexts list, reordered in place
    indices,       \* progressive_reranking: the indices list
    offset,        \* progressive_reranking: the start of the next window
    pc,            \* where the evaluation stands
    tick,          \* the parity of the number of iterations of the while loop
    covered,       \* the positions handed to listwise_reranking so far
    allPerm,       \* every listwise_reranking answer so far was a permutation
    result,        \* the list progressive_reranking returned
    rerankError    \* the exception that ended the evaluation

loggerVars == <<client, redis_cache, project_uuid, environ, cacheStore, call>>
cacheVars == <<store, hist, lastOp>>
feedbackVars == <<instances, feedback>>
statsVars == <<stats, statsOut>>
treeVars == <<records, treeOut>>
rerankVars == <<n_contexts_to_rank, original, contexts, indices, offset, pc, tick,
                covered, allPerm, result, rerankError>>
restVars == <<statsVars, treeVars, rerankVars>>
vars == <<loggerVars, cacheVars, feedbackVars, restVars>>

-----------------------------------------------------------------------------
(* Python values *)

None == "None"
Unset == "<unset>"
NoError == "no error"

\* bool(v) for the strings and Optional values of the model
Truthy(v) == v \notin {None, ""}

\* d[k] = v on a dict
Put(d, k, v) == [x \in (DOMAIN d) \cup {k} |-> IF x = k THEN v ELSE d[x]]

-----------------------------------------------------------------------------
(* Inputs *)

LOG_ENDPOINT == "/trace_log"
VENDOR_LOG_ENDPOINT(vendor) == "/trace_log/" \o vendor

ProjectUuids == {None, "p1"}
EnvValues == {Unset, "", "exp1"}
Vendors == {"langchain"}

\* TraceLog instances: the fields the dispatcher reads or writes
TraceLogs ==
    {[trace_id |-> "t1", project_uuid |-> None, experiment_uuid |-> None],
     [trace_id |-> "t2", project_uuid |-> None, experiment_uuid |-> "exp9"],
     [trace_id |-> "t3", project_uuid |-> "p9", experiment_uuid |-> "exp9"]}

\* UpdateLog instances
UpdateLogs == [trace_id : {"t1"}, field_name_to_value_map : {"status=ok", "error=x"}]

\* the values of a vendor payload: a string, a uuid.UUID, an object json cannot encode
VendorData ==
    {<<>>,
     [run |-> "v"],
     [run |-> "UUID(u1)"],
     [run |-> "object()"],
     [project_uuid |-> "v", run |-> "v"],
     [project_uuid |-> "object()"],
     [experiment_uuid |-> "v"],
     [experiment_uuid |-> "UUID(u1)", run |-> "v"]}

-----------------------------------------------------------------------------
(* Collaborators of the logger *)

Event(sink, method, endpoint, payload, ok) ==
    [sink |-> sink, method |-> method, endpoint |-> endpoint, payload |-> payload, ok |-> ok]

\* the result of running a method: the argument object after it, the I/O it
\* issued in order, and the exception it raised
Outcome(data, io, raised) == [data |-> data, io |-> io, raised |-> raised]

\* HTTPClient.request / request_async: one request on the wire; a transport
\* failure (unreachable, rejected, timed out) is raised.  None.request is an
\* AttributeError before anything is sent.
request(cl, method, endpoint, payload, netOk) ==
    IF cl = None
    THEN [io |-> <<>>, raised |-> "AttributeError"]
    ELSE [io |-> <<Event("remote", method, endpoint, payload, netOk)>>,
          raised |-> IF netOk THEN NoError ELSE "TransportError"]

\* RedisCache.log: one write to the cache backend; a cache error is raised
cache_log(cache, value, cacheOk) ==
    IF cache = None
    THEN [io |-> <<>>, raised |-> "AttributeError"]
    ELSE [io |-> <<Event("cache", "log", "", value, cacheOk)>>,
          raised |-> IF cacheOk THEN NoError ELSE "CacheError"]

\* universal_encoder.json_dumps followed by json.loads: a uuid.UUID comes back as
\* its string, a string as itself; a value with no encoding raises
JsonValue(v) == IF v = "UUID(u1)" THEN "u1" ELSE v
Serializable(d) == \A k \in DOMAIN d : d[k] # "object()"
json_roundtrip(d) == [k \in DOMAIN d |-> JsonValue(d[k])]

\* os.getenv(PAREA_OS_ENV_EXPERIMENT_UUID, None)
getenv(env) == IF env = Unset THEN None ELSE env

-----------------------------------------------------------------------------
(* PareaLogger *)

Self == [client |-> client, redis_cache |-> redis_cache, project_uuid |-> project_uuid]

\* attrs.asdict: a new dict with the instance's fields; the instance is not touched
asdict(data) == data

add_project_uuid_to_data_inplace(self, data) ==
    LET data_dict == [data EXCEPT !.project_uuid = self.project_uuid]
    IN  [ret |-> data_dict, data |-> data_dict]

add_project_uuid_to_data_wrong_key(self, data) ==
    LET data_dict == [asdict(data) EXCEPT !.experiment_uuid = self.project_uuid]
    IN  [ret |-> data_dict, data |-> data]

\* _add_project_uuid_to_data: ret is the dict returned, data the argument afterwards
add_project_uuid_to_data(self, data) ==
    LET data_dict == [asdict(data) EXCEPT !.project_uuid = self.project_uuid]
    IN  [ret |-> data_dict, data |-> data]

update_log_retry(self, data, netOk) ==
    LET r == request(self.client, "PUT", LOG_ENDPOINT, asdict(data), netOk)
    IN  IF r.raised = "TransportError"
        THEN Outcome(data, r.io \o r.io, r.raised)
        ELSE Outcome(data, r.io, r.raised)

update_log(self, data, netOk) ==
    LET r == request(self.client, "PUT", LOG_ENDPOINT, asdict(data), netOk)
    IN  Outcome(data, r.io, r.raised)

record_log(self, data, netOk) ==
    LET a == add_project_uuid_to_data(self, data)
        r == request(self.client, "POST", LOG_ENDPOINT, a.ret, netOk)
    IN  Outcome(a.data, r.io, r.raised)

\* arecord_log: the coroutine builds the payload and awaits the one request_async;
\* no other statement of the logger lies between the two
arecord_log(self, data, netOk) ==
    LET a == add_project_uuid_to_data(self, data)
        r == request(self.client, "POST", LOG_ENDPOINT, a.ret, netOk)
    IN  Outcome(a.data, r.io, r.raised)

\* write_log: hands the TraceLog itself to the cache; an error of the cache propagates
write_log(self, data, cacheOk) ==
    LET w == cache_log(self.redis_cache, data, cacheOk)
    IN  Outcome(data, w.io, w.raised)


default_log_record_first(self, data, cacheOk, netOk) ==
    LET r == IF self.client # None
             THEN record_log(self, data, netOk)
             ELSE Outcome(data, <<>>, NoError)
    IN  IF r.raised # NoError
        THEN r
        ELSE LET w == IF self.redis_cache # None
                      THEN write_log(self, r.data, cacheOk)
                      ELSE Outcome(r.data, <<>>, NoError)
             IN  Outcome(w.data, r.io \o w.io, w.raised)

default_log_unguarded(self, data, cacheOk, netOk) ==
    LET w == write_log(self, data, cacheOk)
    IN  IF w.raised # NoError
        THEN w
        ELSE LET r == record_log(self, w.data, netOk)
             IN  Outcome(r.data, w.io \o r.io, r.raised)

\* default_log: an exception of write_log leaves the method before record_log runs
default_log(self, data, cacheOk, netOk) ==
    LET w == IF self.redis_cache # None
             THEN write_log(self, data, cacheOk)
             ELSE Outcome(data, <<>>, NoError)
    IN  IF w.raised # NoError
        THEN w
        ELSE LET r == IF self.client # None
                      THEN record_log(self, w.data, netOk)
                      ELSE Outcome(w.data, <<>>, NoError)
             IN  Outcome(r.data, w.io \o r.io, r.raised)

record_vendor_log_always_tags(self, data, vendor, env, netOk) ==
    LET d1 == Put(data, "project_uuid", self.project_uuid)
        experiment_uuid == getenv(env)
        tagged == Put(d1, "experiment_uuid", experiment_uuid)
    IN  IF self.client = None
        THEN Outcome(tagged, <<>>, "AttributeError")
        ELSE IF ~Serializable(tagged)
        THEN Outcome(tagged, <<>>, "SerializationError")
        ELSE LET r == request(self.client, "POST", VENDOR_LOG_ENDPOINT(vendor),
                              json_roundtrip(tagged), netOk)
             IN  Outcome(tagged, r.io, r.raised)

\* record_vendor_log: data is the caller's dict, assigned in place; self._client.request
\* is looked up before its arguments are evaluated, so a missing client raises
\* before the payload is serialized, and a payload that does not serialize raises
\* before anything is sent
record_vendor_log(self, data, vendor, env, netOk) ==
    LET d1 == Put(data, "project_uuid", self.project_uuid)
        experiment_uuid == getenv(env)
        tagged == IF Truthy(experiment_uuid)
                  THEN Put(d1, "experiment_uuid", experiment_uuid)
                  ELSE d1
    IN  IF self.client = None
        THEN Outcome(tagged, <<>>, "AttributeError")
        ELSE IF ~Serializable(tagged)
        THEN Outcome(tagged, <<>>, "SerializationError")
        ELSE LET r == request(self.client, "POST", VENDOR_LOG_ENDPOINT(vendor),
                              json_roundtrip(tagged), netOk)
             IN  Outcome(tagged, r.io, r.raised)

arecord_vendor_log_untagged(self, data, vendor, env, netOk) ==
    LET d1 == Put(data, "project_uuid", self.project_uuid)
        tagged == d1
    IN  IF self.client = None
        THEN Outcome(tagged, <<>>, "AttributeError")
        ELSE IF ~Serializable(tagged)
        THEN Outcome(tagged, <<>>, "SerializationError")
        ELSE LET r == request(self.client, "POST", VENDOR_LOG_ENDPOINT(vendor),
                              json_roundtrip(tagged), netOk)
             IN  Outcome(tagged, r.io, r.raised)

arecord_vendor_log(self, data, vendor, env, netOk) ==
    LET d1 == Put(data, "project_uuid", self.project_uuid)
        experiment_uuid == getenv(env)
        tagged == IF Truthy(experiment_uuid)
                  THEN Put(d1, "experiment_uuid", experiment_uuid)
                  ELSE d1
    IN  IF self.client = None
        THEN Outcome(tagged, <<>>, "AttributeError")
        ELSE IF ~Serializable(tagged)
        THEN Outcome(tagged, <<>>, "SerializationError")
        ELSE LET r == request(self.client, "POST", VENDOR_LOG_ENDPOINT(vendor),
                              json_roundtrip(tagged), netOk)
             IN  Outcome(tagged, r.io, r.raised)

\* the methods class PareaLogger defines; getattr of any other name on the
\* (slotted) instance is an AttributeError
PareaLoggerMethods ==
    {"set_client", "set_redis_cache", "set_project_uuid", "_add_project_uuid_to_data",
     "update_log", "record_log", "arecord_log", "write_log", "default_log",
     "record_vendor_log", "arecord_vendor_log"}

\* parea_logger.<name>(data[, vendor]) with the sinks behaving as cacheOk, netOk
Invoke(name, self, data, vendor, env, cacheOk, netOk) ==
    IF name \notin PareaLoggerMethods THEN Outcome(data, <<>>, "AttributeError")
    ELSE CASE name = "update_log" -> update_log(self, data, netOk)
           [] name = "record_log" -> record_log(self, data, netOk)
           [] name = "arecord_log" -> arecord_log(self, data, netOk)
           [] name = "write_log" -> write_log(self, data, cacheOk)
           [] name = "default_log" -> default_log(self, data, cacheOk, netOk)
           [] name = "record_vendor_log" -> record_vendor_log(self, data, vendor, env, netOk)
           [] name = "arecord_vendor_log" -> arecord_vendor_log(self, data, vendor, env, netOk)

-----------------------------------------------------------------------------
(* The logger as a state machine *)

NoCall ==
    [op |-> "none", data |-> <<>>, vendor |-> None, cacheOk |-> TRUE, netOk |-> TRUE,
     after |-> <<>>, io |-> <<>>, raised |-> NoError]

\* the values a successful cache write of the call left in the backend
Written(io) == {io[i].payload : i \in {j \in DOMAIN io : io[j].sink = "cache" /\ io[j].ok}}

\* the record of one call on the logger in its present state and environment
Called(name, data, vendor, cacheOk, netOk) ==
    LET out == Invoke(name, Self, data, vendor, environ, cacheOk, netOk)
    IN  [op |-> name, data |-> data, vendor |-> vendor,
         cacheOk |-> cacheOk, netOk |-> netOk,
         after |-> out.data, io |-> out.io, raised |-> out.raised]

LoggerInit ==
    /\ client = None
    /\ redis_cache = None
    /\ project_uuid = None
    /\ environ = Unset
    /\ cacheStore = {}
    /\ call = NoCall

SetClient ==
    /\ client' = "HTTPClient"
    /\ call' = NoCall
    /\ UNCHANGED <<redis_cache, project_uuid, environ, cacheStore, cacheVars, feedbackVars, restVars>>

SetRedisCache ==
    /\ redis_cache' = "RedisCache"
    /\ call' = NoCall
    /\ UNCHANGED <<client, project_uuid, environ, cacheStore, cacheVars, feedbackVars, restVars>>

SetProjectUuid ==
    /\ \E p \in ProjectUuids \ {None} : project_uuid' = p
    /\ call' = NoCall
    /\ UNCHANGED <<client, redis_cache, environ, cacheStore, cacheVars, feedbackVars, restVars>>

\* the process environment changes between calls (an experiment starts or ends)
SetEnviron ==
    /\ \E e \in EnvValues : environ' = e
    /\ call' = NoCall
    /\ UNCHANGED <<client, redis_cache, project_uuid, cacheStore, cacheVars, feedbackVars, restVars>>

UpdateLog ==
    /\ \E d \in UpdateLogs, n \in BOOLEAN :
          call' = Called("update_log", d, None, TRUE, n)
    /\ cacheStore' = cacheStore \cup Written(call'.io)
    /\ UNCHANGED <<client, redis_cache, project_uuid, environ, cacheVars, feedbackVars, restVars>>

\* the non-blocking counterpart a caller of update_log would look for
AUpdateLog ==
    /\ \E d \in UpdateLogs, n \in BOOLEAN :
          call' = Called("aupdate_log", d, None, TRUE, n)
    /\ cacheStore' = cacheStore \cup Written(call'.io)
    /\ UNCHANGED <<client, redis_cache, project_uuid, environ, cacheVars, feedbackVars, restVars>>

RecordLog ==
    /\ \E d \in TraceLogs, n \in BOOLEAN :
          call' = Called("record_log", d, None, TRUE, n)
    /\ cacheStore' = cacheStore \cup Written(call'.io)
    /\ UNCHANGED <<client, redis_cache, project_uuid, environ, cacheVars, feedbackVars, restVars>>

ARecordLog ==
    /\ \E d \in TraceLogs, n \in BOOLEAN :
          call' = Called("arecord_log", d, None, TRUE, n)
    /\ cacheStore' = cacheStore \cup Written(call'.io)
    /\ UNCHANGED <<client, redis_cache, project_uuid, environ, cacheVars, feedbackVars, restVars>>

WriteLog ==
    /\ \E d \in TraceLogs, c \in BOOLEAN :
          call' = Called("write_log", d, None, c, TRUE)
    /\ cacheStore' = cacheStore \cup Written(call'.io)
    /\ UNCHANGED <<client, redis_cache, project_uuid, environ, cacheVars, feedbackVars, restVars>>

DefaultLog ==
    /\ \E d \in TraceLogs, c \in BOOLEAN, n \in BOOLEAN :
          call' = Called("default_log", d, None, c, n)
    /\ cacheStore' = cacheStore \cup Written(call'.io)
    /\ UNCHANGED <<client, redis_cache, project_uuid, environ, cacheVars, feedbackVars, restVars>>

RecordVendorLog ==
    /\ \E d \in VendorData, v \in Vendors, n \in BOOLEAN :
          call' = Called("record_vendor_log", d, v, TRUE, n)
    /\ cacheStore' = cacheStore \cup Written(call'.io)
    /\ UNCHANGED <<client, redis_cache, project_uuid, environ, cacheVars, feedbackVars, restVars>>

ARecordVendorLog ==
    /\ \E d \in VendorData, v \in Vendors, n \in BOOLEAN :
          call' = Called("arecord_vendor_log", d, v, TRUE, n)
    /\ cacheStore' = cacheStore \cup Written(call'.io)
    /\ UNCHANGED <<client, redis_cache, project_uuid, environ, cacheVars, feedbackVars, restVars>>

LoggerNext ==
    \/ SetClient \/ SetRedisCache \/ SetProjectUuid \/ SetEnviron
    \/ UpdateLog \/ AUpdateLog \/ RecordLog \/ ARecordLog \/ WriteLog \/ DefaultLog
    \/ RecordVendorLog \/ ARecordVendorLog

-----------------------------------------------------------------------------
(* Properties of the logger *)

IsDefaultLog == call.op = "default_log"
BothSinks == client # None /\ redis_cache # None
Sinks(io) == [i \in DOMAIN io |-> io[i].sink]
Has(d, k) == k \in DOMAIN d
\* an experiment identifier is active: the variable is set, and not to the empty string
ExperimentActive == environ \notin {Unset, ""}
Body == call.io[1].payload

\* C1: default_log with a cache and a client: whenever the remote request has
\* failed, the cache write of the same log was issued before it and succeeded, the
\* cache holds the log, and the transport failure is what the caller gets.
C1_RemoteFailureKeepsCacheWrite ==
    IsDefaultLog /\ BothSinks =>
        \A i \in DOMAIN call.io :
            call.io[i].sink = "remote" /\ ~call.io[i].ok =>
                /\ call.raised = "TransportError"
                /\ \E j \in 1 .. (i - 1) :
                      /\ call.io[j].sink = "cache"
                      /\ call.io[j].ok
                      /\ call.io[j].payload = call.data
                /\ call.data \in cacheStore

C1_Witness ==
    /\ IsDefaultLog /\ BothSinks
    /\ Sinks(call.io) = <<"cache", "remote">>
    /\ ~call.netOk
    /\ call.raised = "TransportError"
    /\ call.data \in cacheStore

\* C2: default_log with a cache and a client: whenever the cache write has raised,
\* the log is still posted to the remote sink.
C2_CacheFailureStillRecords ==
    IsDefaultLog /\ BothSinks =>
        ((\E i \in DOMAIN call.io : call.io[i].sink = "cache" /\ ~call.io[i].ok)
            => \E j \in DOMAIN call.io : call.io[j].sink = "remote" /\ call.io[j].method = "POST")

\* C3: default_log under every configuration of sinks: a cache write is issued iff a
\* cache is configured and is the first I/O; with healthy sinks it is followed by one
\* POST /trace_log iff a client is configured and nothing is raised (also with no
\* sink at all); a remote request never precedes a cache write and no unconfigured
\* sink is touched.
C3_CompositePolicy ==
    IsDefaultLog =>
        /\ \A i \in DOMAIN call.io :
              /\ call.io[i].sink = "cache" => redis_cache # None
              /\ call.io[i].sink = "remote" =>
                    /\ client # None
                    /\ call.io[i].method = "POST"
                    /\ call.io[i].endpoint = LOG_ENDPOINT
              /\ call.io[i].sink = "remote" =>
                    \A j \in DOMAIN call.io : call.io[j].sink = "cache" => j < i
        /\ redis_cache # None =>
              /\ call.io # <<>>
              /\ call.io[1].sink = "cache"
              /\ call.io[1].payload = call.data
        /\ call.cacheOk /\ call.netOk =>
              /\ call.raised = NoError
              /\ Sinks(call.io) = (IF redis_cache # None THEN <<"cache">> ELSE <<>>)
                                    \o (IF client # None THEN <<"remote">> ELSE <<>>)

C3_Witness ==
    /\ IsDefaultLog /\ BothSinks
    /\ call.cacheOk /\ call.netOk
    /\ Sinks(call.io) = <<"cache", "remote">>
    /\ call.raised = NoError

\* C4 as stated: the payload record_log / arecord_log posts carries the ambient
\* experiment identifier whenever one is active, and is posted without adding one
\* otherwise.
C4_RecordCarriesAmbientExperiment ==
    call.op \in {"record_log", "arecord_log"} /\ call.io # <<>> =>
        IF ExperimentActive
        THEN Body.experiment_uuid = environ
        ELSE Body.experiment_uuid = call.data.experiment_uuid

\* C4 amended: the payload record_log / arecord_log posts to /trace_log is the
\* TraceLog's fields with project_uuid set to the logger's; its experiment_uuid is
\* the log's own field, whatever the ambient experiment identifier is.
C4_RecordCarriesOwnExperiment ==
    call.op \in {"record_log", "arecord_log"} /\ call.io # <<>> =>
        /\ call.io[1].method = "POST"
        /\ call.io[1].endpoint = LOG_ENDPOINT
        /\ Body.trace_id = call.data.trace_id
        /\ Body.project_uuid = project_uuid
        /\ Body.experiment_uuid = call.data.experiment_uuid

C4_Witness ==
    /\ call.op = "record_log"
    /\ call.io # <<>>
    /\ ExperimentActive
    /\ Body.experiment_uuid = None
    /\ project_uuid # None

\* C5: the body record_vendor_log posts to /trace_log/{vendor} has project_uuid equal
\* to the logger's; has experiment_uuid equal to the ambient variable when an
\* experiment is active; when none is active nothing is added (experiment_uuid is
\* there only if the caller's data had it) and a healthy call raises nothing; every
\* other entry of data is forwarded in its JSON form, and nothing else is.
C5_VendorBody ==
    call.op = "record_vendor_log" =>
        /\ call.io # <<>> =>
              /\ call.io[1].method = "POST"
              /\ call.io[1].endpoint = "/trace_log/" \o call.vendor
              /\ Has(Body, "project_uuid") /\ Body["project_uuid"] = project_uuid
              /\ ExperimentActive =>
                    Has(Body, "experiment_uuid") /\ Body["experiment_uuid"] = environ
              /\ ~ExperimentActive =>
                    /\ Has(Body, "experiment_uuid") <=> Has(call.data, "experiment_uuid")
                    /\ Has(call.data, "experiment_uuid") =>
                          Body["experiment_uuid"] = JsonValue(call.data["experiment_uuid"])
              /\ \A k \in (DOMAIN call.data) \ {"project_uuid", "experiment_uuid"} :
                    Has(Body, k) /\ Body[k] = JsonValue(call.data[k])
              /\ DOMAIN Body \subseteq (DOMAIN call.data) \cup {"project_uuid", "experiment_uuid"}
        /\ (/\ ~ExperimentActive
            /\ client # None
            /\ call.netOk
            /\ \A k \in (DOMAIN call.data) \ {"project_uuid"} : call.data[k] # "object()")
              => call.raised = NoError /\ call.io # <<>>

C5_Witness ==
    /\ call.op = "record_vendor_log"
    /\ call.io # <<>>
    /\ environ = "exp1"
    /\ call.data = [experiment_uuid |-> "UUID(u1)", run |-> "v"]
    /\ Body["experiment_uuid"] = "exp1"
    /\ Body["project_uuid"] = "p1"

\* what a caller can observe of a call: the requests, the exception, its argument
Observable(out) == [io |-> out.io, raised |-> out.raised, after |-> out.data]

NonBlocking == {"arecord_log", "aupdate_log", "arecord_vendor_log"}
Blocking == {"record_log", "update_log", "record_vendor_log"}
Counterpart(name) ==
    CASE name = "arecord_log" -> "record_log"
      [] name = "aupdate_log" -> "update_log"
      [] name = "arecord_vendor_log" -> "record_vendor_log"
      [] name = "record_log" -> "arecord_log"
      [] name = "update_log" -> "aupdate_log"
      [] name = "record_vendor_log" -> "arecord_vendor_log"

\* the counterpart of the last call, run on the same logger, input and sink
OtherVariant ==
    Invoke(Counterpart(call.op), Self, call.data, call.vendor, environ, call.cacheOk, call.netOk)

SameAsOtherVariant ==
    Observable(OtherVariant) = [io |-> call.io, raised |-> call.raised, after |-> call.after]

\* C6 as stated: record, update and recordRawVendorPayload each exist in a blocking
\* and a non-blocking variant, and the two issue the same request and end the same.
C6_EveryOperationHasBothVariants ==
    call.op \in NonBlocking \cup Blocking =>
        /\ call.op \in PareaLoggerMethods
        /\ Counterpart(call.op) \in PareaLoggerMethods
        /\ SameAsOtherVariant

\* C6 amended: record_log / arecord_log and record_vendor_log / arecord_vendor_log
\* exist and are observably equivalent (same request, same result or error, same
\* effect on the argument); update_log has no non-blocking variant: aupdate_log is
\* no method of the logger and calling it sends nothing.
C6_RecordAndVendorVariantsAgree ==
    /\ call.op \in {"record_log", "arecord_log", "record_vendor_log", "arecord_vendor_log"} =>
          /\ call.op \in PareaLoggerMethods
          /\ Counterpart(call.op) \in PareaLoggerMethods
          /\ SameAsOtherVariant
    /\ call.op = "update_log" => Counterpart(call.op) \notin PareaLoggerMethods
    /\ call.op = "aupdate_log" => call.io = <<>> /\ call.raised = "AttributeError"

C6_Witness ==
    /\ call.op = "arecord_vendor_log"
    /\ ExperimentActive
    /\ call.io # <<>>
    /\ call.raised = "TransportError"
    /\ SameAsOtherVariant

\* C7: record_log, arecord_log, write_log and default_log leave the TraceLog they
\* are given as it was, whether they return or raise.
C7_TraceLogNotMutated ==
    call.op \in {"record_log", "arecord_log", "write_log", "default_log"} =>
        call.after = call.data

C7_Witness ==
    /\ IsDefaultLog /\ BothSinks
    /\ call.raised = "TransportError"
    /\ call.data.project_uuid # project_uuid
    /\ call.io[2].payload.project_uuid = project_uuid
    /\ call.after = call.data

\* C8: update_log, record_log and record_vendor_log never issue more than one
\* request; they issue exactly one whenever a client is configured and the payload
\* serializes; a failed request is raised as the transport error, and only a
\* request that succeeded lets the call return normally.
C8_OneRequestFailureRaised ==
    call.op \in {"update_log", "record_log", "record_vendor_log"} =>
        /\ Len(call.io) <= 1
        /\ \A i \in DOMAIN call.io : call.io[i].sink = "remote"
        /\ (client # None /\ (call.op = "record_vendor_log" => Serializable(call.after)))
              => Len(call.io) = 1
        /\ \A i \in DOMAIN call.io : ~call.io[i].ok => call.raised = "TransportError"
        /\ call.raised = NoError => Len(call.io) = 1 /\ call.io[1].ok

C8_Witness ==
    /\ call.op = "update_log"
    /\ Len(call.io) = 1
    /\ ~call.io[1].ok
    /\ call.raised = "TransportError"

-----------------------------------------------------------------------------
(* Cache and CacheRequest *)

MaxOps == 3

Configurations == {"gpt-4:hi", "gpt-4:bye"}

\* CacheRequest instances: id tells two objects apart, configuration is the one field
CacheRequests == [id : {1, 2}, configuration : Configurations]

CachedLogs == {"logA", "logB"}

CacheIdentical(k1, k2) == k1 = k2

\* the __eq__ attrs generates for CacheRequest: field by field, whatever the object
CacheEquivalent(k1, k2) == k1.configuration = k2.configuration

Entry(key, value) == [key |-> key, value |-> value]

Hit(st, key) == {e \in st : CacheEquivalent(e.key, key)}

\* get / aget: the cached response, or None if the key was not found
cache_get(st, key) ==
    [store |-> st,
     ret |-> IF Hit(st, key) = {} THEN None ELSE (CHOOSE e \in Hit(st, key) : TRUE).value,
     raised |-> NoError]

\* set / aset: overwrites any value held for an equivalent key
cache_set(st, key, value) ==
    [store |-> (st \ Hit(st, key)) \cup {Entry(key, value)}, ret |-> None, raised |-> NoError]

\* invalidate / ainvalidate: removing a key that is not there is a no-op
cache_invalidate(st, key) ==
    [store |-> st \ Hit(st, key), ret |-> None, raised |-> NoError]

CacheInit ==
    /\ store = {}
    /\ hist = <<>>
    /\ lastOp = [op |-> "none", key |-> [id |-> 1, configuration |-> "gpt-4:hi"],
                 ret |-> None, raised |-> NoError, before |-> {}]

\* the record of one operation on the cache
Applied(op, key, before, r) ==
    [op |-> op, key |-> key, ret |-> r.ret, raised |-> r.raised, before |-> before]

Get ==
    /\ \E k \in CacheRequests :
          /\ lastOp' = Applied("get", k, store, cache_get(store, k))
          /\ store' = cache_get(store, k).store
    /\ UNCHANGED <<hist, loggerVars, feedbackVars, restVars>>

Set ==
    /\ Len(hist) < MaxOps
    /\ \E k \in CacheRequests, v \in CachedLogs :
          /\ lastOp' = Applied("set", k, store, cache_set(store, k, v))
          /\ store' = cache_set(store, k, v).store
          /\ hist' = Append(hist, [op |-> "set", key |-> k, value |-> v])
    /\ UNCHANGED <<loggerVars, feedbackVars, restVars>>

Invalidate ==
    /\ Len(hist) < MaxOps
    /\ \E k \in CacheRequests :
          /\ lastOp' = Applied("invalidate", k, store, cache_invalidate(store, k))
          /\ store' = cache_invalidate(store, k).store
          /\ hist' = Append(hist, [op |-> "invalidate", key |-> k, value |-> None])
    /\ UNCHANGED <<loggerVars, feedbackVars, restVars>>

CacheNext == Get \/ Set \/ Invalidate

-----------------------------------------------------------------------------
(* Properties of the cache *)

\* the value of the most recent set on a key with k's configuration that no
\* invalidate of such a key has followed, None when there is none
RECURSIVE LastWrite(_, _)
LastWrite(h, k) ==
    IF h = <<>>
    THEN None
    ELSE LET e == h[Len(h)]
         IN  IF e.key.configuration = k.configuration
             THEN (IF e.op = "set" THEN e.value ELSE None)
             ELSE LastWrite(SubSeq(h, 1, Len(h) - 1), k)

-----------------------------------------------------------------------------
(* FeedbackRequest *)

\* a score is the rational n / ScoreDen, n an integer
ScoreDen == 4
ScoreMin == 0
ScoreMax == 1

Scores == (0 - ScoreDen) .. (2 * ScoreDen)
FeedbackTraceIds == {"t1"}

\* validators.ge(bound) and validators.le(bound) on n / ScoreDen
ge(n, bound) == n >= bound * ScoreDen
le(n, bound) == n <= bound * ScoreDen
lt(n, bound) == n < bound * ScoreDen

score_validator_exclusive(n) == ge(n, ScoreMin) /\ lt(n, ScoreMax)

\* score = field(validator=[validators.ge(0), validators.le(1)]): both must pass
score_validator(n) == ge(n, ScoreMin) /\ le(n, ScoreMax)

\* FeedbackRequest(score=n / ScoreDen, trace_id=t): the instance, or the validator's error
FeedbackRequest(n, t) ==
    IF score_validator(n)
    THEN [instance |-> {[score |-> n, trace_id |-> t]}, raised |-> NoError]
    ELSE [instance |-> {}, raised |-> "ValueError"]

\* p.record_feedback(FeedbackRequest(...)): the argument is built first, and the
\* request is sent only if building it returned
record_feedback(n, t) ==
    LET f == FeedbackRequest(n, t)
    IN  IF f.raised # NoError
        THEN [instance |-> {}, io |-> <<>>, raised |-> f.raised]
        ELSE [instance |-> f.instance,
              io |-> <<Event("remote", "POST", "/feedback",
                             CHOOSE i \in f.instance : TRUE, TRUE)>>,
              raised |-> NoError]

FeedbackInit ==
    /\ instances = {}
    /\ feedback = [op |-> "none", score |-> 0, io |-> <<>>, raised |-> NoError, made |-> {}]

\* FeedbackRequest(score=..., trace_id=...)
Construct ==
    \E n \in Scores, t \in FeedbackTraceIds :
        LET f == FeedbackRequest(n, t)
        IN  /\ UNCHANGED <<loggerVars, cacheVars, restVars>>
            /\ instances' = instances \cup f.instance
            /\ feedback' = [op |-> "init", score |-> n, io |-> <<>>,
                            raised |-> f.raised, made |-> f.instance]

\* instance.score = ...: attrs runs the field's validators on assignment as well
SetScore ==
    \E i \in instances, n \in Scores :
        LET f == FeedbackRequest(n, i.trace_id)
        IN  /\ UNCHANGED <<loggerVars, cacheVars, restVars>>
            /\ instances' = IF f.raised = NoError
                            THEN (instances \ {i}) \cup f.instance
                            ELSE instances
            /\ feedback' = [op |-> "setattr", score |-> n, io |-> <<>>,
                            raised |-> f.raised, made |-> f.instance]

RecordFeedback ==
    \E n \in Scores, t \in FeedbackTraceIds :
        LET r == record_feedback(n, t)
        IN  /\ UNCHANGED <<loggerVars, cacheVars, restVars>>
            /\ instances' = instances \cup r.instance
            /\ feedback' = [op |-> "record_feedback", score |-> n, io |-> r.io,
                            raised |-> r.raised, made |-> r.instance]

FeedbackNext == Construct \/ SetScore \/ RecordFeedback

-----------------------------------------------------------------------------
(* Properties of FeedbackRequest *)

\* 0 <= n / ScoreDen <= 1
InRange(n) == 0 <= n /\ n <= ScoreDen

\* C10: building a FeedbackRequest succeeds for every score in [0, 1], 0 and 1
\* included, and raises the validation error for every other score; so every
\* instance there is has its score in [0, 1], and record_feedback on a request
\* that failed to build sends nothing.
C10_ScoreValidated ==
    /\ \A i \in instances : InRange(i.score)
    /\ feedback.op \in {"init", "setattr", "record_feedback"} =>
          /\ feedback.raised = NoError <=> InRange(feedback.score)
          /\ InRange(feedback.score) =>
                /\ \E i \in feedback.made : i.score = feedback.score
                /\ feedback.made \subseteq instances
          /\ ~InRange(feedback.score) =>
                /\ feedback.raised = "ValueError"
                /\ feedback.made = {}
                /\ feedback.io = <<>>
    /\ feedback.op = "record_feedback" /\ InRange(feedback.score) => Len(feedback.io) = 1

C10_Witness ==
    /\ feedback.op = "record_feedback"
    /\ feedback.score > ScoreDen
    /\ feedback.raised = "ValueError"
    /\ feedback.io = <<>>
    /\ \E i \in instances : i.score = 0
    /\ \E i \in instances : i.score = ScoreDen

-----------------------------------------------------------------------------
(* ExperimentStatsSchema *)

MaxTraces == 2

MetricNames == {"usefulness", "friendliness"}
UnknownMetric == "accuracy"

\* EvaluationResultSchema: a name and a score (an integer number of score units)
Score(name, score) == [name |-> name, score |-> score]

\* TraceStatsSchema: scores is Optional[List[EvaluationResultSchema]], [] by default;
\* scores_is_none tells scores=None from scores=[]
Trace(scores) == [scores |-> scores, scores_is_none |-> FALSE]
NoneTrace == [scores |-> <<>>, scores_is_none |-> TRUE]
TraceStats ==
    {NoneTrace,
     Trace(<<>>),
     Trace(<<Score("usefulness", 1)>>),
     Trace(<<Score("usefulness", 4)>>),
     Trace(<<Score("friendliness", 2)>>),
     Trace(<<Score("usefulness", 3), Score("friendliness", 2)>>),
     Trace(<<Score("usefulness", 1), Score("usefulness", 4)>>)}

\* ExperimentStatsSchema.parent_trace_stats
Schemas == UNION {[1 .. n -> TraceStats] : n \in 0 .. MaxTraces}

\* a float result as the exact fraction num / den
Fraction(num, den) == [num |-> num, den |-> den]
SameNumber(x, y) == x.num * y.den = y.num * x.den
\* 0.0
Zero == Fraction(0, 1)

\* `for trace_stat in parent_trace_stats: for score in trace_stat.scores`: the scores
\* in the order the loops visit them; iterating over None is a TypeError
Iterable(traces) == \A i \in DOMAIN traces : ~traces[i].scores_is_none

RECURSIVE Visit(_)
Visit(traces) ==
    IF traces = <<>> THEN <<>> ELSE Head(traces).scores \o Visit(Tail(traces))

\* accumulators.get(name, 0.0) + score.score over the visited scores
RECURSIVE Accumulate(_, _)
Accumulate(scores, name) ==
    IF scores = <<>>
    THEN 0
    ELSE Accumulate(SubSeq(scores, 1, Len(scores) - 1), name)
         + (IF scores[Len(scores)].name = name THEN scores[Len(scores)].score ELSE 0)

\* counts.get(name, 0) + 1 over the visited scores
RECURSIVE Count(_, _)
Count(scores, name) ==
    IF scores = <<>>
    THEN 0
    ELSE Count(SubSeq(scores, 1, Len(scores) - 1), name)
         + (IF scores[Len(scores)].name = name THEN 1 ELSE 0)

\* sum(scores) and len(scores) of a list of score values
RECURSIVE Sum(_)
Sum(scores) == IF scores = <<>> THEN 0 ELSE scores[1].score + Sum(Tail(scores))

Keys(scores) == {scores[i].name : i \in DOMAIN scores}

\* avg_scores dividing by the number of traces that hold the name
avg_scores_per_trace(traces) ==
    IF ~Iterable(traces)
    THEN [ret |-> <<>>, raised |-> "TypeError"]
    ELSE LET scores == Visit(traces)
         IN  [ret |-> [name \in Keys(scores) |->
                          Fraction(Accumulate(scores, name),
                                   Cardinality({i \in DOMAIN traces :
                                                   name \in Keys(traces[i].scores)}))],
              raised |-> NoError]

\* ExperimentStatsSchema.avg_scores
avg_scores(traces) ==
    IF ~Iterable(traces)
    THEN [ret |-> <<>>, raised |-> "TypeError"]
    ELSE LET scores == Visit(traces)
         IN  [ret |-> [name \in Keys(scores) |->
                          Fraction(Accumulate(scores, name), Count(scores, name))],
              raised |-> NoError]

\* ExperimentStatsSchema.cumulative_avg_score
cumulative_avg_score(traces) ==
    IF ~Iterable(traces)
    THEN [ret |-> Zero, raised |-> "TypeError"]
    ELSE LET scores == Visit(traces)
         IN  [ret |-> IF scores # <<>> THEN Fraction(Sum(scores), Len(scores)) ELSE Zero,
              raised |-> NoError]

\* ExperimentStatsSchema.avg_score
avg_score(traces, score_name) ==
    IF ~Iterable(traces)
    THEN [ret |-> Zero, raised |-> "TypeError"]
    ELSE LET all == Visit(traces)
             scores == SelectSeq(all, LAMBDA score : score.name = score_name)
         IN  [ret |-> IF scores # <<>> THEN Fraction(Sum(scores), Len(scores)) ELSE Zero,
              raised |-> NoError]

StatsInit ==
    /\ stats = <<>>
    /\ statsOut = [op |-> "none", name |-> None, ret |-> Zero, raised |-> NoError]

\* ExperimentStatsSchema(parent_trace_stats=[...]): any list of traces is accepted
NewStats ==
    /\ \E traces \in Schemas : stats' = traces
    /\ statsOut' = [op |-> "none", name |-> None, ret |-> Zero, raised |-> NoError]
    /\ UNCHANGED <<loggerVars, cacheVars, feedbackVars, treeVars, rerankVars>>

AvgScores ==
    /\ statsOut' = [op |-> "avg_scores", name |-> None,
                    ret |-> avg_scores(stats).ret, raised |-> avg_scores(stats).raised]
    /\ UNCHANGED <<stats, loggerVars, cacheVars, feedbackVars, treeVars, rerankVars>>

CumulativeAvgScore ==
    /\ statsOut' = [op |-> "cumulative_avg_score", name |-> None,
                    ret |-> cumulative_avg_score(stats).ret,
                    raised |-> cumulative_avg_score(stats).raised]
    /\ UNCHANGED <<stats, loggerVars, cacheVars, feedbackVars, treeVars, rerankVars>>

AvgScore ==
    /\ \E score_name \in MetricNames \cup {UnknownMetric} :
          statsOut' = [op |-> "avg_score", name |-> score_name,
                       ret |-> avg_score(stats, score_name).ret,
                       raised |-> avg_score(stats, score_name).raised]
    /\ UNCHANGED <<stats, loggerVars, cacheVars, feedbackVars, treeVars, rerankVars>>

StatsNext == NewStats \/ AvgScores \/ CumulativeAvgScore \/ AvgScore

-----------------------------------------------------------------------------
(* Properties of the aggregates *)

\* the places <<trace, position>> of the scores a schema holds
Places(traces) ==
    UNION {{<<i, j>> : j \in DOMAIN traces[i].scores} : i \in DOMAIN traces}
Named(traces, name) == {p \in Places(traces) : traces[p[1]].scores[p[2]].name = name}
NamesReported(traces) == {traces[p[1]].scores[p[2]].name : p \in Places(traces)}

RECURSIVE Total(_, _)
Total(traces, places) ==
    IF places = {}
    THEN 0
    ELSE LET p == CHOOSE q \in places : TRUE
         IN  traces[p[1]].scores[p[2]].score + Total(traces, places \ {p})

TracesReporting(traces, name) == {p[1] : p \in Named(traces, name)}
SomeScoresNone == \E i \in DOMAIN stats : stats[i].scores_is_none

\* C11 as stated: avg_scores returns a mapping whose keys are exactly the metric
\* names some trace reports, each with the sum of that metric's scores divided by
\* the number of traces that report it.
C11_MeanOverReportingTraces ==
    statsOut.op = "avg_scores" =>
        /\ statsOut.raised = NoError
        /\ DOMAIN statsOut.ret = NamesReported(stats)
        /\ \A name \in NamesReported(stats) :
              SameNumber(statsOut.ret[name],
                         Fraction(Total(stats, Named(stats, name)),
                                  Cardinality(TracesReporting(stats, name))))

\* C11 amended: when every trace holds a list of scores, avg_scores returns a mapping
\* whose keys are exactly the metric names some trace reports, each with the sum of
\* that metric's scores divided by the number of scores of that name (a trace that
\* reports a metric twice counts twice; this is the number of reporting traces when
\* no trace does), never dividing by zero; when a trace's scores is None it raises
\* TypeError.
C11_MeanOverReportedScores ==
    statsOut.op = "avg_scores" =>
        /\ statsOut.raised = (IF SomeScoresNone THEN "TypeError" ELSE NoError)
        /\ statsOut.raised = NoError =>
              /\ DOMAIN statsOut.ret = NamesReported(stats)
              /\ \A name \in NamesReported(stats) :
                    /\ statsOut.ret[name].den > 0
                    /\ SameNumber(statsOut.ret[name],
                                  Fraction(Total(stats, Named(stats, name)),
                                           Cardinality(Named(stats, name))))
                    /\ Cardinality(Named(stats, name)) = Cardinality(TracesReporting(stats, name))
                          => SameNumber(statsOut.ret[name],
                                        Fraction(Total(stats, Named(stats, name)),
                                                 Cardinality(TracesReporting(stats, name))))

C11_Witness ==
    /\ statsOut.op = "avg_scores"
    /\ statsOut.raised = NoError
    /\ Len(stats) = 2
    /\ NamesReported(stats) = MetricNames
    /\ Cardinality(Named(stats, "usefulness")) = 3
    /\ Cardinality(TracesReporting(stats, "usefulness")) = 2
    /\ statsOut.ret["usefulness"] = Fraction(8, 3)

\* C12: cumulative_avg_score returns the sum of all scores of all traces divided by
\* the number of all scores, and 0 when there is no score at all.
C12_PooledMean ==
    statsOut.op = "cumulative_avg_score" =>
        /\ statsOut.raised = NoError
        /\ IF Places(stats) = {}
           THEN statsOut.ret = Zero
           ELSE SameNumber(statsOut.ret,
                           Fraction(Total(stats, Places(stats)), Cardinality(Places(stats))))

\* C13: avg_scores, cumulative_avg_score and avg_score(name) return without raising
\* on every schema; avg_score(name) is 0 when no trace reports name and is
\* avg_scores[name] otherwise.
C13_NeverRaises ==
    statsOut.op \in {"avg_scores", "cumulative_avg_score", "avg_score"} =>
        /\ statsOut.raised = NoError
        /\ statsOut.op = "avg_score" =>
              IF statsOut.name \in NamesReported(stats)
              THEN SameNumber(statsOut.ret, avg_scores(stats).ret[statsOut.name])
              ELSE statsOut.ret = Zero

-----------------------------------------------------------------------------
(* Trace tree reconstruction *)

TraceIds == {"a", "b", "c"}

\* the trace ids a record's children may name: the call graph has no cycle, so a
\* record names only ids after its own
After(id) ==
    CASE id = "a" -> {"b", "c"}
      [] id = "b" -> {"c"}
      [] OTHER -> {}

ChildLists(id) ==
    {<<>>} \cup {<<x>> : x \in After(id)}
           \cup {<<x, y>> : <<x, y>> \in {q \in After(id) \X After(id) : q[1] # q[2]}}

\* TraceLog: the fields reconstruction reads
TreeRecord(id, parent, children) ==
    [trace_id |-> id, parent_trace_id |-> parent, children |-> children]

RecordsOf(id) == {TreeRecord(id, parent, children) : parent \in TraceIds, children \in ChildLists(id)}

\* a collection: at most one record for each trace id
Collections ==
    {ra \cup rb \cup rc :
        ra \in {{}} \cup {{r} : r \in RecordsOf("a")},
        rb \in {{}} \cup {{r} : r \in RecordsOf("b")},
        rc \in {{}} \cup {{r} : r \in RecordsOf("c")}}

\* index records by trace_id
Index(collection) ==
    [id \in {r.trace_id : r \in collection} |->
        CHOOSE r \in collection : r.trace_id = id]

\* a record with parent_trace_id == trace_id is a root
Roots(collection) == {r \in collection : r.parent_trace_id = r.trace_id}

\* a referenced child id missing from the input collection
Missing(collection) ==
    {r.children[i] : <<r, i>> \in {q \in collection \X (1 .. 2) : q[2] \in DOMAIN q[1].children}}
        \ DOMAIN Index(collection)

\* TraceLogTree: children is a sequence of nested TraceLogTree values
NoTree == [trace_id |-> None, children |-> <<>>]

\* recursively replace each id in children with the subtree of the record bearing it
RECURSIVE Subtree(_, _)
Subtree(index, id) ==
    [trace_id |-> id,
     children |-> [i \in DOMAIN index[id].children |->
                      Subtree(index, index[id].children[i])]]

\* the subtree with the children that have no record left out
RECURSIVE SubtreeOfPresent(_, _)
SubtreeOfPresent(index, id) ==
    LET present == SelectSeq(index[id].children, LAMBDA child : child \in DOMAIN index)
    IN  [trace_id |-> id,
         children |-> [i \in DOMAIN present |-> SubtreeOfPresent(index, present[i])]]

Raised(error) == [tree |-> NoTree, raised |-> error]

\* reconstruction that builds the tree from the records that are there
reconstruct_dropping(collection) ==
    IF Cardinality(Roots(collection)) # 1
    THEN {Raised("InvariantViolationError")}
    ELSE {[tree |-> SubtreeOfPresent(Index(collection),
                                     (CHOOSE r \in Roots(collection) : TRUE).trace_id),
           raised |-> NoError]}

\* the outcomes of reconstruction: with both a missing child and not exactly one
\* root, either error
reconstruct(collection) ==
    IF Missing(collection) = {} /\ Cardinality(Roots(collection)) = 1
    THEN {[tree |-> Subtree(Index(collection),
                            (CHOOSE r \in Roots(collection) : TRUE).trace_id),
           raised |-> NoError]}
    ELSE (IF Missing(collection) # {} THEN {Raised("DanglingReferenceError")} ELSE {})
         \cup (IF Cardinality(Roots(collection)) # 1
               THEN {Raised("InvariantViolationError")}
               ELSE {})

TreeInit ==
    /\ records = {}
    /\ treeOut = [op |-> "none", tree |-> NoTree, raised |-> NoError]

\* the caller gathers a collection of stored records
Collect ==
    /\ \E collection \in Collections : records' = collection
    /\ treeOut' = [op |-> "none", tree |-> NoTree, raised |-> NoError]
    /\ UNCHANGED <<loggerVars, cacheVars, feedbackVars, statsVars, rerankVars>>

Reconstruct ==
    /\ \E outcome \in reconstruct(records) :
          treeOut' = [op |-> "reconstruct", tree |-> outcome.tree, raised |-> outcome.raised]
    /\ UNCHANGED <<records, loggerVars, cacheVars, feedbackVars, statsVars, rerankVars>>

TreeNext == Collect \/ Reconstruct

-----------------------------------------------------------------------------
(* Properties of reconstruction *)

DanglingReference ==
    \E r \in records : \E i \in DOMAIN r.children :
        \A q \in records : q.trace_id # r.children[i]

\* C14: reconstruction over a collection in which some record's children names a
\* trace id that has no record never returns a tree; it fails, and with
\* DanglingReferenceError whenever the collection has exactly one root.
C14_DanglingReferenceFails ==
    (treeOut.op = "reconstruct" /\ DanglingReference) =>
        /\ treeOut.raised \in {"DanglingReferenceError", "InvariantViolationError"}
        /\ treeOut.tree = NoTree
        /\ Cardinality(Roots(records)) = 1 => treeOut.raised = "DanglingReferenceError"

C14_Witness ==
    /\ treeOut.op = "reconstruct"
    /\ DanglingReference
    /\ Cardinality(records) = 2
    /\ Cardinality(Roots(records)) = 1
    /\ \E r \in Roots(records) : r.children = <<"b", "c">>
    /\ treeOut.raised = "DanglingReferenceError"

-----------------------------------------------------------------------------
(* context_ranking_listwise_factory *)

MaxContexts == 4
MaxWindow == 3

Min(a, b) == IF a < b THEN a ELSE b

\* list(range(n))
Range(n) == [i \in 1 .. n |-> i - 1]

\* s[a:b] for 0 <= a <= b: the ends are clipped to the list
Slice(s, a, b) == SubSeq(s, Min(a, Len(s)) + 1, Min(b, Len(s)))

\* s[a:b] = new
SliceAssign(s, a, b, new) ==
    SubSeq(s, 1, Min(a, Len(s))) \o new \o SubSeq(s, Min(b, Len(s)) + 1, Len(s))

\* [window[i] for i in reranked_indices]
Reordered(window, reranked_indices) ==
    [j \in DOMAIN reranked_indices |-> window[reranked_indices[j] + 1]]

\* window[i] raises IndexError for some i in reranked_indices
IndexOutOfRange(window, reranked_indices) ==
    \E j \in DOMAIN reranked_indices : reranked_indices[j] >= Len(window)

IsPermutation(list, k) ==
    /\ Len(list) = k
    /\ \A i \in 0 .. k - 1 : \E j \in DOMAIN list : list[j] = i

PermutationsOf(k) == {list \in [1 .. k -> 0 .. k - 1] : IsPermutation(list, k)}

\* lists of numbers the model's answer may parse to that are no permutation
Malformed(k) == {<<>>, <<0>>, <<0, 0>>, <<k>>}

\* listwise_reranking on k contexts: the possible return values
listwise_reranking(k) ==
    IF k = 0 \/ k = 1
    THEN {Range(k)}
    ELSE PermutationsOf(k) \cup Malformed(k)

\* log.inputs[context_field] for each context field: distinct texts, or the first
\* text twice
ContextLists ==
    {[i \in 1 .. len |-> "c" \o ToString(i - 1)] : len \in 0 .. MaxContexts}
    \cup {[i \in 1 .. len |-> "c" \o ToString(IF i = 2 THEN 0 ELSE i - 1)] :
             len \in 2 .. MaxContexts}

window_step == n_contexts_to_rank \div 2

\* contexts[offset:offset + window_size]
window_contexts(list, at, window_size) == Slice(list, at, at + window_size)

\* indices[:window_size] whatever the offset
window_indices_at_start(list, at, window_size) == Slice(list, 0, window_size)

\* indices[offset:offset + window_size]
window_indices(list, at, window_size) == Slice(list, at, at + window_size)

RerankInit ==
    /\ n_contexts_to_rank = 10
    /\ original = <<>>
    /\ contexts = <<>>
    /\ indices = <<>>
    /\ offset = 0
    /\ pc = "idle"
    /\ tick = 0
    /\ covered = {}
    /\ allPerm = TRUE
    /\ result = <<>>
    /\ rerankError = NoError

\* context_ranking_listwise_factory(n_contexts_to_rank=n)
Factory ==
    /\ pc \in {"idle", "done", "raised"}
    /\ \E n \in 0 .. MaxWindow :
          /\ n_contexts_to_rank' = n
          /\ pc' = IF n < 1 THEN "raised" ELSE "made"
          /\ rerankError' = IF n < 1 THEN "ValueError" ELSE NoError
    /\ original' = <<>>
    /\ contexts' = <<>>
    /\ indices' = <<>>
    /\ offset' = 0
    /\ tick' = 0
    /\ covered' = {}
    /\ allPerm' = TRUE
    /\ result' = <<>>
    /\ UNCHANGED <<loggerVars, cacheVars, feedbackVars, statsVars, treeVars>>

\* context_ranking(log) up to the call of progressive_reranking
ContextRanking ==
    /\ pc = "made"
    /\ \E list \in ContextLists :
          /\ original' = list
          /\ contexts' = list
    /\ pc' = "called"
    /\ UNCHANGED <<n_contexts_to_rank, indices, offset, tick, covered, allPerm, result,
                   rerankError>>
    /\ UNCHANGED <<loggerVars, cacheVars, feedbackVars, statsVars, treeVars>>

\* progressive_reranking, lines 58-59: few contexts are ranked in one call
RankAtOnce ==
    /\ pc = "called"
    /\ Len(contexts) <= n_contexts_to_rank
    /\ \E reranked_indices \in listwise_reranking(Len(contexts)) :
          /\ result' = reranked_indices
          /\ allPerm' = (allPerm /\ IsPermutation(reranked_indices, Len(contexts)))
    /\ covered' = 0 .. Len(contexts) - 1
    /\ pc' = "done"
    /\ UNCHANGED <<n_contexts_to_rank, original, contexts, indices, offset, tick, rerankError>>
    /\ UNCHANGED <<loggerVars, cacheVars, feedbackVars, statsVars, treeVars>>

\* progressive_reranking, lines 61-65
EnterLoop ==
    /\ pc = "called"
    /\ Len(contexts) > n_contexts_to_rank
    /\ offset' = Len(contexts) - n_contexts_to_rank
    /\ indices' = Range(Len(contexts))
    /\ pc' = "loop"
    /\ UNCHANGED <<n_contexts_to_rank, original, contexts, tick, covered, allPerm, result,
                   rerankError>>
    /\ UNCHANGED <<loggerVars, cacheVars, feedbackVars, statsVars, treeVars>>

\* one iteration of the while loop, lines 67-74
WindowStep ==
    /\ pc = "loop"
    /\ offset > 0
    /\ LET wc == window_contexts(contexts, offset, n_contexts_to_rank)
           wi == window_indices(indices, offset, n_contexts_to_rank)
       IN  \E reranked_indices \in listwise_reranking(Len(wc)) :
              /\ allPerm' = (allPerm /\ IsPermutation(reranked_indices, Len(wc)))
              /\ covered' = covered \cup (offset .. offset + Len(wc) - 1)
              /\ IF IndexOutOfRange(wc, reranked_indices) \/ IndexOutOfRange(wi, reranked_indices)
                 THEN /\ pc' = "raised"
                      /\ rerankError' = "IndexError"
                      /\ UNCHANGED <<contexts, indices, offset, tick>>
                 ELSE /\ contexts' = SliceAssign(contexts, offset, offset + n_contexts_to_rank,
                                                 Reordered(wc, reranked_indices))
                      /\ indices' = SliceAssign(indices, offset, offset + n_contexts_to_rank,
                                                Reordered(wi, reranked_indices))
                      /\ offset' = offset - window_step
                      /\ tick' = 1 - tick
                      /\ UNCHANGED <<pc, rerankError>>
    /\ UNCHANGED <<n_contexts_to_rank, original, result>>
    /\ UNCHANGED <<loggerVars, cacheVars, feedbackVars, statsVars, treeVars>>

\* the window at the start of the list and the return, lines 76-82
FinalWindow ==
    /\ pc = "loop"
    /\ ~(offset > 0)
    /\ LET wc == window_contexts(contexts, 0, n_contexts_to_rank)
           wi == window_indices(indices, 0, n_contexts_to_rank)
       IN  \E reranked_indices \in listwise_reranking(Len(wc)) :
              /\ allPerm' = (allPerm /\ IsPermutation(reranked_indices, Len(wc)))
              /\ covered' = covered \cup (0 .. Len(wc) - 1)
              /\ IF IndexOutOfRange(wc, reranked_indices) \/ IndexOutOfRange(wi, reranked_indices)
                 THEN /\ pc' = "raised"
                      /\ rerankError' = "IndexError"
                      /\ UNCHANGED <<contexts, indices, result>>
                 ELSE /\ contexts' = SliceAssign(contexts, 0, n_contexts_to_rank,
                                                 Reordered(wc, reranked_indices))
                      /\ indices' = SliceAssign(indices, 0, n_contexts_to_rank,
                                                Reordered(wi, reranked_indices))
                      /\ result' = indices'
                      /\ pc' = "done"
                      /\ UNCHANGED rerankError
    /\ UNCHANGED <<n_contexts_to_rank, original, offset, tick>>
    /\ UNCHANGED <<loggerVars, cacheVars, feedbackVars, statsVars, treeVars>>

RerankNext == Factory \/ ContextRanking \/ RankAtOnce \/ EnterLoop \/ WindowStep \/ FinalWindow

-----------------------------------------------------------------------------
(* Properties of progressive_reranking *)

\* C15: for every n_contexts_to_rank >= 1 and every list of contexts, a call of
\* progressive_reranking ends: it returns or raises.
C15_Terminates == (pc = "called" /\ n_contexts_to_rank >= 1) ~> (pc \in {"done", "raised"})

\* C16: as long as every listwise_reranking answer was a permutation of the positions
\* of its window, after every window step indices is a permutation of
\* 0..len(contexts)-1 and contexts[j] is the original context at position indices[j];
\* the returned list is a permutation of all positions and every position was in some
\* window.
C16_IndicesTrackContexts ==
    allPerm =>
        /\ (pc = "loop" \/ (pc = "done" /\ Len(original) > n_contexts_to_rank)) =>
              /\ IsPermutation(indices, Len(original))
              /\ Len(contexts) = Len(original)
              /\ \A j \in DOMAIN contexts : contexts[j] = original[indices[j] + 1]
        /\ pc = "done" =>
              /\ IsPermutation(result, Len(original))
              /\ covered = 0 .. Len(original) - 1

C16_Witness ==
    /\ pc = "done"
    /\ allPerm
    /\ n_contexts_to_rank = 2
    /\ Len(original) = 4
    /\ original[1] # original[2]
    /\ result = <<3, 0, 1, 2>>
    /\ contexts = <<"c3", "c0", "c1", "c2">>

-----------------------------------------------------------------------------
(* Specifications *)

Init == LoggerInit /\ CacheInit /\ FeedbackInit /\ StatsInit /\ TreeInit /\ RerankInit

SpecLogger == Init /\ [][LoggerNext]_vars

SpecCache == Init /\ [][CacheNext]_vars

SpecFeedback == Init /\ [][FeedbackNext]_vars

SpecStats == Init /\ [][StatsNext]_vars

SpecTree == Init /\ [][TreeNext]_vars

SpecRerank == Init /\ [][RerankNext]_vars

\* a call of progressive_reranking that can take its next step takes it
SpecRerankFair ==
    /\ Init
    /\ [][RerankNext]_vars
    /\ WF_vars(RankAtOnce)
    /\ WF_vars(EnterLoop)
    /\ WF_vars(WindowStep)
    /\ WF_vars(FinalWindow)

=============================================================================
